---- MODULE Spec2Model ----
(***************************************************************************)
(* Lunchdrop future-menus monitor (monitor_lunchdrop.py, v7.6).            *)
(*                                                                         *)
(* The model follows main(): the weekday window, the single login, the     *)
(* per-date loop of summary mode and of normal (diff + alert) mode, the    *)
(* Slack report, and the per-URL state files that survive from one run to  *)
(* the next.  The payload extractor is an operator computed as the code    *)
(* computes it; sha256 and md5 are modelled as injective tags on the text  *)
(* they hash.                                                              *)
(***************************************************************************)
EXTENDS Integers, Sequences, FiniteSets, TLC

VARIABLES
    today,            \* date.today() as a day ordinal; ordinal % 7 = weekday()
    LOOKAHEAD_DAYS,   \* env LOOKAHEAD_DAYS
    SUMMARY_ONLY,     \* env SUMMARY_ONLY
    SEND_HEARTBEAT,   \* env SEND_HEARTBEAT
    run,              \* number of the current run of main()
    pc,               \* position of main()
    weekdays,         \* the window built by main()
    idx,              \* position of the per-date loop in weekdays
    newly_available,  \* main(): change set of the run
    errors,           \* main(): per-date errors of the run
    results,          \* main(): summary-mode results of the run
    store,            \* STATE_DIR: state file path -> stored snapshot
    auth_state,       \* AUTH_STATE has been written by this run
    auth_calls,       \* calls of ensure_logged_in_and_save_state in this run
    checked,          \* dates given to check_date_with_auth in this run
    snaps,            \* date -> what check_date_with_auth returned in this run
    loaded,           \* urls given to load_state in this run
    saved,            \* urls given to save_state in this run
    prev_store,       \* store as it was when the run started
    slack,            \* calls of notify_slack in this run, with their outcome
    warned,           \* errors printed by the final [warn] loop
    page,             \* extractor harness: the page under extraction
    extracted,        \* extractor harness: what the extractor returned
    ever_saved,       \* urls given to save_state in this or an earlier run
    page_b,           \* comparison harness: a second page
    extracted_b,      \* comparison harness: what the extractor returned for it
    signin,           \* login harness: the sign-in surface and the site
    auth_pc,          \* login harness: position of the authenticator
    auth_steps,       \* login harness: what the authenticator has done
    real,             \* repeat harness: date -> the page the site really has
    reported_before,  \* repeat harness: dates alerted by an earlier run
    owed              \* repeat harness: dates an earlier run found newly
                      \* available, no alert listing them delivered so far

vars == <<today, LOOKAHEAD_DAYS, SUMMARY_ONLY, SEND_HEARTBEAT, run, pc,
          weekdays, idx, newly_available, errors, results, store, auth_state,
          auth_calls, checked, snaps, loaded, saved, prev_store, slack,
          warned, page, extracted, ever_saved, page_b, extracted_b, signin,
          auth_pc, auth_steps, real, reported_before, owed>>

\* the variables only the harnesses move
harness_vars ==
    <<page_b, extracted_b, signin, auth_pc, auth_steps, real, reported_before,
      owed>>

(***************************************************************************)
(* Bounds.                                                                 *)
(***************************************************************************)
MaxLookahead == 2        \* largest LOOKAHEAD_DAYS of a full run
MaxWindowLookahead == 10 \* largest LOOKAHEAD_DAYS of the window harness
MaxRuns == 2             \* successive runs of main() over one STATE_DIR
MaxDeliveries == 2       \* longest deliveries list of a payload

(***************************************************************************)
(* Text, hashing, sorting.                                                 *)
(***************************************************************************)
\* restaurant names, listed in Python string order
NameOrder == <<"A", "A  B", "A B", "B">>

Names == {NameOrder[i] : i \in 1..Len(NameOrder)}

NameRank(n) == CHOOSE i \in 1..Len(NameOrder) : NameOrder[i] = n

RECURSIVE InsertSorted(_, _)
InsertSorted(n, s) ==
    IF s = <<>> THEN <<n>>
    ELSE IF NameRank(n) <= NameRank(Head(s)) THEN <<n>> \o s
    ELSE <<Head(s)>> \o InsertSorted(n, Tail(s))

RECURSIVE sorted(_)
sorted(s) == IF s = <<>> THEN <<>> ELSE InsertSorted(Head(s), sorted(Tail(s)))

\* str.split() and " ".join() over the names of the model, which differ in
\* whitespace only in "A  B" and "A B"
split(s) ==
    IF s = "" THEN <<>>
    ELSE IF s \in {"A  B", "A B"} THEN <<"A", "B">>
    ELSE <<s>>

join(words) ==
    IF words = <<>> THEN ""
    ELSE IF Len(words) = 1 THEN words[1]
    ELSE "A B"

\* " ".join(s.split())
stable_text(s) == join(split(s))

\* as json_dumps, writing the first element only
json_dumps_first(list) ==
    <<"[">> \o (IF list = <<>> THEN <<>> ELSE <<Head(list)>>) \o <<"]">>

\* json.dumps of a list of strings, as a token sequence; "" is <<>>
json_dumps(list) == <<"[">> \o list \o <<"]">>

EmptyText == <<>>

\* sha256 hexdigest, injective on the text
content_hash(content) == <<"sha256">> \o content

url_for(d) == <<"BASE_URL", d>>

\* md5 of the url, injective
state_path_for(url) == <<"md5">> \o url

(***************************************************************************)
(* The Inertia payload of a date page.                                     *)
(***************************************************************************)
\* one element of the deliveries list
Delivery(isOpen, isCancelled, userCanOrder, restaurantName, restaurant, url) ==
    [dict |-> TRUE, isOpen |-> isOpen, isCancelled |-> isCancelled,
     userCanOrder |-> userCanOrder, restaurantName |-> restaurantName,
     restaurant |-> restaurant, url |-> url]

\* a list element that is not an object
NotADict ==
    [dict |-> FALSE, isOpen |-> "missing", isCancelled |-> "missing",
     userCanOrder |-> "missing", restaurantName |-> "", restaurant |-> "",
     url |-> ""]

\* #app[data-page] as the extractor meets it
\*   blob: "timeout" the selector never appears, "empty" the attribute is
\*         empty, "badjson" json.loads fails, "ok" it parses
\*   top/props/lunchDay: "dict", "missing" or "nondict" (null, list, number)
\*   deliveries: props.lunchDay.deliveries (<<>> when missing, null or [])
\*   delivery: props.delivery as a list of at most one (<<>> when falsy)
Page(blob, top, props, lunchDay, deliveries, delivery) ==
    [blob |-> blob, top |-> top, props |-> props, lunchDay |-> lunchDay,
     deliveries |-> deliveries, delivery |-> delivery]

Raised == [raised |-> TRUE]

Returned(available, deliveries, digest) ==
    [raised |-> FALSE, available |-> available, deliveries |-> deliveries,
     digest |-> digest]

\* the snapshot of every early return and of the except branch
DefaultSnapshot == Returned(FALSE, <<>>, content_hash(EmptyText))

\* data.get("props", {}).get("lunchDay", {}).get("deliveries")
\*   or ([data["props"]["delivery"]] if ... .get("delivery") else []) or []
payload_deliveries(p) ==
    IF p.top # "dict" \/ p.props = "nondict" THEN Raised
    ELSE IF p.props = "missing" THEN [raised |-> FALSE, list |-> <<>>]
    ELSE IF p.lunchDay = "nondict" THEN Raised
    ELSE LET first == IF p.lunchDay = "missing" THEN <<>> ELSE p.deliveries
         IN  [raised |-> FALSE,
              list |-> IF first # <<>> THEN first ELSE p.delivery]

\* as is_open_delivery, without the isCancelled test
is_open_delivery_ignores_cancelled(d) ==
    /\ d.isOpen \in {"1", "true"}
    /\ d.userCanOrder \in {"missing", "true"}

\* (d.get("isOpen") in (1, True)) and not d.get("isCancelled")
\*   and d.get("userCanOrder", True)
is_open_delivery(d) ==
    /\ d.isOpen \in {"1", "true"}
    /\ d.isCancelled # "true"
    /\ d.userCanOrder \in {"missing", "true"}

\* d.get("restaurantName") or (d.get("restaurant") or {}).get("name", "")
delivery_name(d) ==
    IF d.restaurantName # "" THEN d.restaurantName ELSE d.restaurant

RECURSIVE delivery_info(_)
delivery_info(ds) ==
    IF ds = <<>> THEN <<>>
    ELSE LET d == Head(ds)
         IN  (IF delivery_name(d) # ""
              THEN <<[name |-> delivery_name(d), url |-> d.url]>>
              ELSE <<>>) \o delivery_info(Tail(ds))

info_names(info) == [i \in 1..Len(info) |-> info[i].name]

\* the body of the try block
payload_parse(p) ==
    IF p.blob \in {"timeout", "badjson"} THEN Raised
    ELSE IF p.blob = "empty" THEN DefaultSnapshot
    ELSE LET got == payload_deliveries(p)
         IN  IF got.raised THEN Raised
             ELSE IF \E i \in 1..Len(got.list) : ~got.list[i].dict THEN Raised
             ELSE LET open_deliveries == SelectSeq(got.list, is_open_delivery)
                      info == delivery_info(open_deliveries)
                  IN  Returned(open_deliveries # <<>>, info,
                               content_hash(json_dumps(sorted(info_names(info)))))

\* as detect_availability_and_deliveries, without the except branch
detect_no_except(p) == payload_parse(p)

\* as detect_availability_and_deliveries, with an except branch that reads
\* the page text for the "no menus" message
detect_with_message_fallback(p) ==
    LET r == payload_parse(p)
    IN  IF r.raised
        THEN Returned(~p.no_menus_phrase, <<>>, content_hash(EmptyText))
        ELSE r

\* try: ... except Exception: return False, [], content_hash("")
detect_availability_and_deliveries(p) ==
    LET r == payload_parse(p)
    IN  IF r.raised THEN DefaultSnapshot ELSE r

(***************************************************************************)
(* Pages the model draws from.                                             *)
(***************************************************************************)
NoPayload(blob) == Page(blob, "missing", "missing", "missing", <<>>, <<>>)

LunchDay(ds) == Page("ok", "dict", "dict", "dict", ds, <<>>)

OpenDelivery(name) == Delivery("true", "false", "missing", name, "", "")

\* pages a date can show during a full run
RunPages ==
    { NoPayload("timeout"),
      LunchDay(<<>>),
      LunchDay(<<OpenDelivery("A")>>),
      LunchDay(<<OpenDelivery("A"), OpenDelivery("B")>>) }

\* delivery records of the extractor harness
PayloadDeliveries ==
    { Delivery(o, c, u, n[1], n[2], "") :
        o \in {"true", "1", "false"}, c \in {"false", "true"},
        u \in {"missing", "false"},
        n \in {<<"A", "">>, <<"B", "">>, <<"", "A">>, <<"", "">>} }
    \cup {NotADict}

DeliveryLists ==
    UNION { [1..n -> PayloadDeliveries] : n \in 0..MaxDeliveries }

\* a rendered page: its payload, and whether its main content shows the
\* "no menus scheduled yet" message
Rendered(p, no_menus_phrase) ==
    [blob |-> p.blob, top |-> p.top, props |-> p.props,
     lunchDay |-> p.lunchDay, deliveries |-> p.deliveries,
     delivery |-> p.delivery, no_menus_phrase |-> no_menus_phrase]

\* payloads of the extractor harness
AllPages ==
    { NoPayload(b) : b \in {"timeout", "empty", "badjson"} }
    \cup { Page("ok", "nondict", "missing", "missing", <<>>, <<>>),
           Page("ok", "dict", "missing", "missing", <<>>, <<>>),
           Page("ok", "dict", "nondict", "missing", <<>>, <<>>),
           Page("ok", "dict", "dict", "nondict", <<>>, <<>>) }
    \cup { LunchDay(ds) : ds \in DeliveryLists }
    \cup { Page("ok", "dict", "dict", "missing", <<>>, <<d>>) :
             d \in PayloadDeliveries }

\* pages of the extractor harness
RenderedPages == {Rendered(p, t) : p \in AllPages, t \in BOOLEAN}

\* payloads of the comparison harness: open deliveries whose names differ
\* in order and whitespace, a nameless one, and a page without payload
CompareNames == {"", "A", "A  B", "A B", "B"}

ComparePages ==
    { LunchDay(ds) :
        ds \in UNION { [1..n -> {OpenDelivery(m) : m \in CompareNames}] :
                         n \in 0..MaxDeliveries } }
    \cup {NoPayload("timeout")}

(***************************************************************************)
(* Per-date check and the state files.                                     *)
(***************************************************************************)
CheckError(url, kind) == [url |-> url, error |-> <<kind, url>>]

has_error(r) == "error" \in DOMAIN r

\* nav: "ok", "timeout" (PlaywrightTimeoutError) or "error" (any other
\* exception) of goto / wait_for_load_state
check_date_with_auth(d, nav, p) ==
    LET url == url_for(d)
        r == detect_availability_and_deliveries(p)
    IN  IF nav = "timeout" THEN CheckError(url, "Timeout loading")
        ELSE IF nav = "error" \/ r.raised THEN CheckError(url, "Error loading")
        ELSE [url |-> url, available |-> r.available, digest |-> r.digest,
              names |-> info_names(r.deliveries), deliveries |-> r.deliveries]

Navs == {"ok", "timeout", "error"}

\* json.dump / json.loads of a state file
\* json.dump of a snapshot: the text holds true/false for the flag
json_dump(data) ==
    [available |-> IF data.available THEN "true" ELSE "false",
     digest |-> data.digest, names |-> data.names,
     deliveries |-> data.deliveries]

\* as json_loads, reading the flag by the truth value of its token
json_loads_truthy(text) ==
    [available |-> text.available # "",
     digest |-> text.digest, names |-> text.names,
     deliveries |-> text.deliveries]

json_loads(text) ==
    [available |-> text.available = "true",
     digest |-> text.digest, names |-> text.names,
     deliveries |-> text.deliveries]

\* as save_state, keeping a state file that already exists
save_state_no_overwrite(st, url, data) ==
    [f \in DOMAIN st \cup {state_path_for(url)} |->
        IF f \in DOMAIN st THEN st[f] ELSE json_dump(data)]

save_state(st, url, data) ==
    [f \in DOMAIN st \cup {state_path_for(url)} |->
        IF f = state_path_for(url) THEN json_dump(data) ELSE st[f]]

\* Optional[dict]: <<>> is None
load_state(st, url) ==
    IF state_path_for(url) \in DOMAIN st
    THEN <<json_loads(st[state_path_for(url)])>>
    ELSE <<>>

snap_now_of(r) ==
    [available |-> r.available, digest |-> r.digest, names |-> r.names,
     deliveries |-> r.deliveries]

\* as is_newly_available, flagging every digest change, also one that ends
\* unavailable
is_newly_available_any_change(prev, snap_now) ==
    LET became_available ==
            (prev = <<>> \/ ~prev[1].available) /\ snap_now.available
        changed == prev # <<>> /\ prev[1].digest # snap_now.digest
    IN  became_available \/ changed

\* became_available or (snap_now["available"] and changed)
is_newly_available(prev, snap_now) ==
    LET became_available ==
            (prev = <<>> \/ ~prev[1].available) /\ snap_now.available
        changed == prev # <<>> /\ prev[1].digest # snap_now.digest
    IN  became_available \/ (snap_now.available /\ changed)

(***************************************************************************)
(* main()                                                                  *)
(***************************************************************************)
\* as window, with weekday() <= 5
window_with_saturday(t, n) ==
    LET IsWeekday(d) == d % 7 <= 5
    IN  SelectSeq([i \in 1..n |-> t + i], IsWeekday)

\* [today + i for i in range(1, LOOKAHEAD_DAYS + 1) if weekday() < 5]
window(t, n) ==
    LET IsWeekday(d) == d % 7 < 5
    IN  SelectSeq([i \in 1..n |-> t + i], IsWeekday)

\* as notify_slack, posting again after the first post
notify_slack_twice(text, blocks, delivered) ==
    slack \o << [text |-> text, blocks |-> blocks, delivered |-> FALSE],
               [text |-> text, blocks |-> blocks, delivered |-> delivered] >>

notify_slack(text, blocks, delivered) ==
    Append(slack, [text |-> text, blocks |-> blocks, delivered |-> delivered])

Idle == NoPayload("timeout")

NotExtracted == [raised |-> FALSE, pending |-> TRUE]

\* the harness variables at rest
HarnessIdle ==
    /\ page_b = Idle
    /\ extracted_b = NotExtracted
    /\ signin = <<>>
    /\ auth_pc = "idle"
    /\ auth_steps = <<>>
    /\ real = <<>>
    /\ reported_before = {}
    /\ owed = {}

RunInit ==
    /\ pc = "start"
    /\ weekdays = <<>>
    /\ idx = 1
    /\ newly_available = <<>>
    /\ errors = <<>>
    /\ results = <<>>
    /\ auth_state = FALSE
    /\ auth_calls = 0
    /\ checked = <<>>
    /\ snaps = <<>>
    /\ loaded = {}
    /\ saved = {}
    /\ slack = <<>>
    /\ warned = <<>>

Init ==
    /\ today \in 0..6
    /\ LOOKAHEAD_DAYS \in 0..MaxLookahead
    /\ SUMMARY_ONLY \in BOOLEAN
    /\ SEND_HEARTBEAT \in BOOLEAN
    /\ run = 1
    /\ store = <<>>
    /\ prev_store = <<>>
    /\ RunInit
    /\ page = Idle
    /\ extracted = NotExtracted
    /\ ever_saved = {}
    /\ HarnessIdle

\* as pc_after_window, without the return of line 335
pc_after_window_no_return(w) == "auth"

\* lines 333-335: if not weekdays: return
pc_after_window(w) == IF w = <<>> THEN "done" ELSE "auth"

\* lines 327-341: build the window, leave when it is empty
StartRun ==
    /\ pc = "start"
    /\ weekdays' = window(today, LOOKAHEAD_DAYS)
    /\ pc' = pc_after_window(weekdays')
    /\ UNCHANGED <<today, LOOKAHEAD_DAYS, SUMMARY_ONLY, SEND_HEARTBEAT, run,
                   idx, newly_available, errors, results, store, auth_state,
                   auth_calls, checked, snaps, loaded, saved, prev_store,
                   slack, warned, page, extracted,
                   ever_saved, harness_vars>>

AuthOutcomes == {"ok", "still_login", "timeout"}

\* as pc_after_login, without the return of line 357
pc_after_login_no_return(outcome, delivered) ==
    IF outcome = "ok" \/ delivered
    THEN IF SUMMARY_ONLY THEN "summary" ELSE "loop"
    ELSE "aborted"

\* lines 353-357: a failed login returns after its notification; line 355
\* raises when the notification is not delivered
pc_after_login(outcome, delivered) ==
    IF outcome = "ok" THEN IF SUMMARY_ONLY THEN "summary" ELSE "loop"
    ELSE IF delivered THEN "done" ELSE "aborted"

\* lines 350-357: login once; on failure notify and return
Login ==
    /\ pc = "auth"
    /\ auth_calls' = auth_calls + 1
    /\ \E outcome \in AuthOutcomes :
         IF outcome = "ok"
         THEN /\ auth_state' = TRUE
              /\ slack' = slack
              /\ pc' = pc_after_login(outcome, TRUE)
         ELSE \E delivered \in BOOLEAN :
              /\ auth_state' = auth_state
              /\ slack' = notify_slack("login failed", <<outcome>>, delivered)
              /\ pc' = pc_after_login(outcome, delivered)
    /\ UNCHANGED <<today, LOOKAHEAD_DAYS, SUMMARY_ONLY, SEND_HEARTBEAT, run,
                   weekdays, idx, newly_available, errors, results, store,
                   checked, snaps, loaded, saved, prev_store, warned, page,
                   extracted,
                   ever_saved, harness_vars>>

\* lines 363-368: one iteration of the summary loop
SummaryCheck ==
    /\ pc = "summary"
    /\ idx <= Len(weekdays)
    /\ \E nav \in Navs, p \in RunPages :
         LET d == weekdays[idx]
             r == check_date_with_auth(d, nav, p)
         IN  /\ checked' = Append(checked, d)
             /\ snaps' = snaps @@ (d :> r)
             /\ results' = Append(results,
                  IF has_error(r)
                  THEN [d |-> d, url |-> r.url, avail |-> FALSE,
                        names |-> <<>>, deliveries |-> <<>>, err |-> r.error]
                  ELSE [d |-> d, url |-> r.url, avail |-> r.available,
                        names |-> r.names, deliveries |-> r.deliveries,
                        err |-> <<>>])
    /\ idx' = idx + 1
    /\ UNCHANGED <<today, LOOKAHEAD_DAYS, SUMMARY_ONLY, SEND_HEARTBEAT, run, pc,
                   weekdays, newly_available, errors, store, auth_state,
                   auth_calls, loaded, saved, prev_store, slack, warned, page,
                   extracted,
                   ever_saved, harness_vars>>

\* as summary_line, without the error branch of line 385
summary_line_no_error(res) ==
    IF res.avail
    THEN IF res.names # <<>>
         THEN [d |-> res.d, shows |-> "names", text |-> res.names]
         ELSE [d |-> res.d, shows |-> "names not detected", text |-> <<>>]
    ELSE [d |-> res.d, shows |-> "not available", text |-> <<>>]

\* lines 385-394: the line of one date in the summary
summary_line(res) ==
    IF res.err # <<>> THEN [d |-> res.d, shows |-> "error", text |-> res.err]
    ELSE IF res.avail
    THEN IF res.names # <<>>
         THEN [d |-> res.d, shows |-> "names", text |-> res.names]
         ELSE [d |-> res.d, shows |-> "names not detected", text |-> <<>>]
    ELSE [d |-> res.d, shows |-> "not available", text |-> <<>>]

\* lines 369-398: build the roll-up, post it, return
SummaryReport ==
    /\ pc = "summary"
    /\ idx > Len(weekdays)
    /\ \E delivered \in BOOLEAN :
         /\ slack' = notify_slack("Lunchdrop summary (weekdays)",
                        [i \in 1..Len(results) |-> summary_line(results[i])],
                        delivered)
         /\ pc' = IF delivered THEN "done" ELSE "aborted"
    /\ UNCHANGED <<today, LOOKAHEAD_DAYS, SUMMARY_ONLY, SEND_HEARTBEAT, run,
                   weekdays, idx, newly_available, errors, results, store,
                   auth_state, auth_calls, checked, snaps, loaded, saved,
                   prev_store, warned, page, extracted,
                   ever_saved, harness_vars>>

\* as next_date, leaving the loop at the first error (break)
next_date_break(r, i) == IF has_error(r) THEN Len(weekdays) + 1 ELSE i + 1

\* line 401 / line 407: the loop goes on to the next date, also after an
\* error (continue)
next_date(r, i) == i + 1

\* lines 401-429: one iteration of the normal-mode loop
\* set(prev.get("names", [])) of line 418; prev is <<>> or <<state>>
prev_names(prev) ==
    IF prev = <<>> THEN {} ELSE {prev[1].names[i] : i \in 1..Len(prev[1].names)}

\* as change_event, carrying the names_added of line 425
change_event_delta(d, url, prev, snap_now) ==
    LET old == prev_names(prev)
        fresh(n) == n \notin old
    IN  [d |-> d, url |-> url, names |-> SelectSeq(snap_now.names, fresh)]

\* line 428: (d, url, snap_now.get("names", []))
change_event(d, url, prev, snap_now) ==
    [d |-> d, url |-> url, names |-> snap_now.names]

\* lines 406-429 for the date at idx, given how its navigation ends and the
\* page it renders
ChangeCheckWith(nav, p) ==
    /\ pc = "loop"
    /\ idx <= Len(weekdays)
    /\  LET d == weekdays[idx]
             r == check_date_with_auth(d, nav, p)
         IN  /\ checked' = Append(checked, d)
             /\ snaps' = snaps @@ (d :> r)
             /\ IF has_error(r)
                THEN /\ errors' = Append(errors, r.error)
                     /\ UNCHANGED <<store, loaded, saved, ever_saved,
                                    newly_available>>
                ELSE LET snap_now == snap_now_of(r)
                         prev == load_state(store, r.url)
                     IN  /\ loaded' = loaded \cup {r.url}
                         /\ store' = save_state(store, r.url, snap_now)
                         /\ saved' = saved \cup {r.url}
                         /\ ever_saved' = ever_saved \cup {r.url}
                         /\ newly_available' =
                              IF is_newly_available(prev, snap_now)
                              THEN Append(newly_available,
                                     change_event(d, r.url, prev, snap_now))
                              ELSE newly_available
                         /\ errors' = errors
             /\ idx' = next_date(r, idx)
    /\ UNCHANGED <<today, LOOKAHEAD_DAYS, SUMMARY_ONLY, SEND_HEARTBEAT, run, pc,
                   weekdays, results, auth_state, auth_calls, prev_store,
                   slack, warned, page, extracted, harness_vars>>

ChangeCheck == \E nav \in Navs, p \in RunPages : ChangeCheckWith(nav, p)

\* as loop_finished, leaving the loop after its first date
loop_finished_early(i, days) == i > 1

\* line 404: the for loop over weekdays is exhausted
loop_finished(i, days) == i > Len(days)

\* line 431: the loop is over, browser.close()
CloseBrowser ==
    /\ pc = "loop"
    /\ loop_finished(idx, weekdays)
    /\ pc' = "report"
    /\ UNCHANGED <<today, LOOKAHEAD_DAYS, SUMMARY_ONLY, SEND_HEARTBEAT, run,
                   weekdays, idx, newly_available, errors, results, store,
                   auth_state, auth_calls, checked, snaps, loaded, saved,
                   prev_store, slack, warned, page, extracted,
                   ever_saved, harness_vars>>

\* lines 443-448: the line of one changed date in the alert
alert_line(e) ==
    [d |-> e.d, shows |-> IF e.names # <<>> THEN "names" ELSE "available",
     text |-> e.names]

\* as report_kind, without the SEND_HEARTBEAT test of line 452
report_kind_no_flag(changes, heartbeat) ==
    IF changes # <<>> THEN "alert" ELSE "heartbeat"

\* lines 434, 452: which message the normal-mode report posts
report_kind(changes, heartbeat) ==
    IF changes # <<>> THEN "alert"
    ELSE IF heartbeat THEN "heartbeat" ELSE "none"

\* lines 434-460: alert, heartbeat or nothing
Report ==
    /\ pc = "report"
    /\ IF report_kind(newly_available, SEND_HEARTBEAT) = "alert"
       THEN \E delivered \in BOOLEAN :
            /\ slack' = notify_slack("New future Lunchdrop dates available",
                 [i \in 1..Len(newly_available) |->
                     alert_line(newly_available[i])], delivered)
            /\ pc' = IF delivered THEN "warn" ELSE "aborted"
       ELSE IF report_kind(newly_available, SEND_HEARTBEAT) = "heartbeat"
       THEN \E delivered \in BOOLEAN :
            /\ slack' = notify_slack("Lunchdrop monitor heartbeat",
                 <<weekdays[1], weekdays[Len(weekdays)]>>, delivered)
            /\ pc' = IF delivered THEN "warn" ELSE "aborted"
       ELSE /\ slack' = slack
            /\ pc' = "warn"
    /\ UNCHANGED <<today, LOOKAHEAD_DAYS, SUMMARY_ONLY, SEND_HEARTBEAT, run,
                   weekdays, idx, newly_available, errors, results, store,
                   auth_state, auth_calls, checked, snaps, loaded, saved,
                   prev_store, warned, page, extracted,
                   ever_saved, harness_vars>>

\* lines 462-463: print the collected errors
PrintWarnings ==
    /\ pc = "warn"
    /\ warned' = errors
    /\ pc' = "done"
    /\ UNCHANGED <<today, LOOKAHEAD_DAYS, SUMMARY_ONLY, SEND_HEARTBEAT, run,
                   weekdays, idx, newly_available, errors, results, store,
                   auth_state, auth_calls, checked, snaps, loaded, saved,
                   prev_store, slack, page, extracted,
                   ever_saved, harness_vars>>

\* the scheduler starts main() again over the same STATE_DIR
NextRun ==
    /\ pc \in {"done", "aborted"}
    /\ run < MaxRuns
    /\ run' = run + 1
    /\ SUMMARY_ONLY' \in BOOLEAN
    /\ SEND_HEARTBEAT' \in BOOLEAN
    /\ prev_store' = store
    /\ pc' = "start"
    /\ weekdays' = <<>>
    /\ idx' = 1
    /\ newly_available' = <<>>
    /\ errors' = <<>>
    /\ results' = <<>>
    /\ auth_state' = FALSE
    /\ auth_calls' = 0
    /\ checked' = <<>>
    /\ snaps' = <<>>
    /\ loaded' = {}
    /\ saved' = {}
    /\ slack' = <<>>
    /\ warned' = <<>>
    /\ UNCHANGED <<today, LOOKAHEAD_DAYS, store, page, extracted,
                   ever_saved, harness_vars>>

Next ==
    \/ StartRun
    \/ Login
    \/ SummaryCheck
    \/ SummaryReport
    \/ ChangeCheck
    \/ CloseBrowser
    \/ Report
    \/ PrintWarnings
    \/ NextRun

Spec == Init /\ [][Next]_vars

(***************************************************************************)
(* Successive change-mode runs over dates whose real content is fixed:     *)
(* each check renders the real page of its date or fails transiently.      *)
(***************************************************************************)
MaxNoiseRuns == 3

\* what a date really offers
RealPages ==
    { LunchDay(<<>>),
      LunchDay(<<OpenDelivery("A")>>),
      LunchDay(<<OpenDelivery("A"), OpenDelivery("B")>>) }

\* line 254 timing out, line 258 failing on the blob
TransientPages == {NoPayload("timeout"), NoPayload("badjson")}

InitNoise ==
    /\ today = 0
    /\ LOOKAHEAD_DAYS \in 1..2
    /\ SUMMARY_ONLY = FALSE
    /\ SEND_HEARTBEAT \in BOOLEAN
    /\ run = 1
    /\ store = <<>>
    /\ prev_store = <<>>
    /\ RunInit
    /\ page = Idle
    /\ extracted = NotExtracted
    /\ ever_saved = {}
    /\ page_b = Idle
    /\ extracted_b = NotExtracted
    /\ signin = <<>>
    /\ auth_pc = "idle"
    /\ auth_steps = <<>>
    /\ real \in [1..LOOKAHEAD_DAYS -> RealPages]
    /\ reported_before = {}
    /\ owed = {}

NoiseCheck ==
    /\ pc = "loop"
    /\ idx <= Len(weekdays)
    /\ \E nav \in Navs :
         \E p \in {real[weekdays[idx]]} \cup TransientPages :
             ChangeCheckWith(nav, p)

\* the dates of an alert that reached Slack
alerted_dates ==
    IF /\ auth_state
       /\ newly_available # <<>>
       /\ slack # <<>>
       /\ slack[Len(slack)].delivered
    THEN {newly_available[i].d : i \in 1..Len(newly_available)}
    ELSE {}

\* the dates this run found newly available: in the change set of line 428
\* with nothing, or an unavailable state, loaded at line 416
newly_unlocked ==
    {newly_available[i].d : i \in 1..Len(newly_available)}
      \ {d \in DOMAIN snaps :
            /\ load_state(prev_store, url_for(d)) # <<>>
            /\ load_state(prev_store, url_for(d))[1].available}

\* the scheduler starts main() again in change mode
NoiseNextRun ==
    /\ pc \in {"done", "aborted"}
    /\ run < MaxNoiseRuns
    /\ run' = run + 1
    /\ SUMMARY_ONLY' = FALSE
    /\ SEND_HEARTBEAT' = SEND_HEARTBEAT
    /\ prev_store' = store
    /\ pc' = "start"
    /\ weekdays' = <<>>
    /\ idx' = 1
    /\ newly_available' = <<>>
    /\ errors' = <<>>
    /\ results' = <<>>
    /\ auth_state' = FALSE
    /\ auth_calls' = 0
    /\ checked' = <<>>
    /\ snaps' = <<>>
    /\ loaded' = {}
    /\ saved' = {}
    /\ slack' = <<>>
    /\ warned' = <<>>
    /\ reported_before' = reported_before \cup alerted_dates
    /\ owed' = (owed \cup newly_unlocked) \ alerted_dates
    /\ UNCHANGED <<today, LOOKAHEAD_DAYS, store, page, extracted, ever_saved,
                   page_b, extracted_b, signin, auth_pc, auth_steps, real>>

NextNoise ==
    \/ StartRun
    \/ Login
    \/ NoiseCheck
    \/ CloseBrowser
    \/ Report
    \/ PrintWarnings
    \/ NoiseNextRun

SpecNoise == InitNoise /\ [][NextNoise]_vars

(***************************************************************************)
(* The window alone, over longer lookaheads.                               *)
(***************************************************************************)
InitWindow ==
    /\ today \in 0..6
    /\ LOOKAHEAD_DAYS \in 0..MaxWindowLookahead
    /\ SUMMARY_ONLY \in BOOLEAN
    /\ SEND_HEARTBEAT \in BOOLEAN
    /\ run = 1
    /\ store = <<>>
    /\ prev_store = <<>>
    /\ RunInit
    /\ page = Idle
    /\ extracted = NotExtracted
    /\ ever_saved = {}
    /\ HarnessIdle

SpecWindow == InitWindow /\ [][StartRun]_vars

(***************************************************************************)
(* The extractor alone, over every page shape.                             *)
(***************************************************************************)
InitExtract ==
    /\ today = 0
    /\ LOOKAHEAD_DAYS = 0
    /\ SUMMARY_ONLY = FALSE
    /\ SEND_HEARTBEAT = FALSE
    /\ run = 1
    /\ store = <<>>
    /\ prev_store = <<>>
    /\ pc = "extract"
    /\ weekdays = <<>>
    /\ idx = 1
    /\ newly_available = <<>>
    /\ errors = <<>>
    /\ results = <<>>
    /\ auth_state = FALSE
    /\ auth_calls = 0
    /\ checked = <<>>
    /\ snaps = <<>>
    /\ loaded = {}
    /\ saved = {}
    /\ slack = <<>>
    /\ warned = <<>>
    /\ page \in RenderedPages
    /\ extracted = NotExtracted
    /\ ever_saved = {}
    /\ HarnessIdle

\* line 295: call the extractor on the loaded page
ExtractPage ==
    /\ pc = "extract"
    /\ extracted' = detect_availability_and_deliveries(page)
    /\ pc' = "extracted"
    /\ UNCHANGED <<today, LOOKAHEAD_DAYS, SUMMARY_ONLY, SEND_HEARTBEAT, run,
                   weekdays, idx, newly_available, errors, results, store,
                   auth_state, auth_calls, checked, snaps, loaded, saved,
                   prev_store, slack, warned, page, ever_saved,
                   harness_vars>>

SpecExtract == InitExtract /\ [][ExtractPage]_vars

(***************************************************************************)
(* ensure_logged_in_and_save_state, step by step, against one sign-in      *)
(* surface.  The surface says which controls it shows, when the password   *)
(* control appears, whether the credentials are accepted and whether the   *)
(* two navigations load; its last three fields change as the login runs.   *)
(***************************************************************************)
Surfaces ==
    [ loads : BOOLEAN,
      username : BOOLEAN,
      password : {"shown", "on_advance", "never"},
      reveal : {"fast", "slow"},
      continue_btn : BOOLEAN,
      submit_btn : BOOLEAN,
      accepts : BOOLEAN,
      home_loads : BOOLEAN,
      home_login : BOOLEAN,
      advanced : {FALSE},
      password_now : {FALSE},
      session : {FALSE} ]

\* any(safe_has(page, s) for s in PASSWORD_SELECTORS)
has_password(s) == s.password_now

\* line 167: any sign-in control
has_signin_ui(s) == has_password(s) \/ s.username

\* lines 180-185: Continue/Next, else a submit button, else Enter
advance_via(s) ==
    IF s.continue_btn THEN "continue"
    ELSE IF s.submit_btn THEN "submit" ELSE "enter"

\* lines 211-216: a submit button, else Continue/Next, else Enter
submit_via(s) ==
    IF s.submit_btn THEN "submit"
    ELSE IF s.continue_btn THEN "continue" ELSE "enter"

\* as password_present, without the wait of lines 196-202
password_present_no_wait(now, appears) == now

\* lines 195-202: present now, or appearing before wait_for_selector times
\* out
password_present(now, appears) == now \/ appears

\* line 232 on the home surface: a session shows the application, no
\* session shows what the surface shows to strangers
still_login(s) == ~s.session /\ s.home_login

\* as session_serialized, serialising before the check of line 233
session_serialized_before_check(still) == TRUE

\* lines 233-238: the raise of line 236 comes before storage_state
session_serialized(still) == ~still

Step(kind, via) == [kind |-> kind, via |-> via]

InitAuth ==
    /\ today = 0
    /\ LOOKAHEAD_DAYS = 0
    /\ SUMMARY_ONLY = FALSE
    /\ SEND_HEARTBEAT = FALSE
    /\ run = 1
    /\ store = <<>>
    /\ prev_store = <<>>
    /\ pc = "authenticating"
    /\ weekdays = <<>>
    /\ idx = 1
    /\ newly_available = <<>>
    /\ errors = <<>>
    /\ results = <<>>
    /\ auth_state = FALSE
    /\ auth_calls = 1
    /\ checked = <<>>
    /\ snaps = <<>>
    /\ loaded = {}
    /\ saved = {}
    /\ slack = <<>>
    /\ warned = <<>>
    /\ page = Idle
    /\ extracted = NotExtracted
    /\ ever_saved = {}
    /\ page_b = Idle
    /\ extracted_b = NotExtracted
    /\ \E s \in Surfaces :
         signin = [s EXCEPT !.password_now = (s.password = "shown")]
    /\ auth_pc = "goto_signin"
    /\ auth_steps = <<>>
    /\ real = <<>>
    /\ reported_before = {}
    /\ owed = {}

auth_frame ==
    <<today, LOOKAHEAD_DAYS, SUMMARY_ONLY, SEND_HEARTBEAT, run, pc, weekdays,
      idx, newly_available, errors, results, store, auth_calls, checked,
      snaps, loaded, saved, prev_store, slack, warned, page, extracted,
      ever_saved, page_b, extracted_b, real, reported_before, owed>>

\* lines 163-164
AuthGotoSignin ==
    /\ auth_pc = "goto_signin"
    /\ auth_pc' = IF signin.loads THEN "detect" ELSE "failed"
    /\ UNCHANGED <<signin, auth_steps, auth_state, auth_frame>>

\* line 167
AuthDetect ==
    /\ auth_pc = "detect"
    /\ auth_pc' = IF has_signin_ui(signin) THEN "username" ELSE "goto_home"
    /\ UNCHANGED <<signin, auth_steps, auth_state, auth_frame>>

\* lines 171-176
AuthFillUsername ==
    /\ auth_pc = "username"
    /\ IF signin.username
       THEN /\ auth_steps' = Append(auth_steps, Step("fill_username", ""))
            /\ auth_pc' = "advance"
       ELSE /\ auth_steps' = auth_steps
            /\ auth_pc' = "password"
    /\ UNCHANGED <<signin, auth_state, auth_frame>>

\* lines 179-192
AuthAdvance ==
    /\ auth_pc = "advance"
    /\ auth_steps' = Append(auth_steps, Step("advance", advance_via(signin)))
    /\ signin' = [signin EXCEPT
                    !.advanced = TRUE,
                    !.password_now = \/ signin.password_now
                                     \/ /\ signin.password = "on_advance"
                                        /\ signin.reveal = "fast"]
    /\ auth_pc' = "password"
    /\ UNCHANGED <<auth_state, auth_frame>>

\* lines 195-204
AuthPassword ==
    /\ auth_pc = "password"
    /\ LET appears == signin.password = "on_advance" /\ signin.advanced
           present == password_present(signin.password_now, appears)
       IN  /\ signin' = [signin EXCEPT
                           !.password_now = signin.password_now \/ appears]
           /\ auth_pc' = IF present THEN "fill_password" ELSE "goto_home"
    /\ UNCHANGED <<auth_steps, auth_state, auth_frame>>

\* lines 205-208
AuthFillPassword ==
    /\ auth_pc = "fill_password"
    /\ auth_steps' = Append(auth_steps, Step("fill_password", ""))
    /\ auth_pc' = "submit"
    /\ UNCHANGED <<signin, auth_state, auth_frame>>

\* lines 211-222
AuthSubmit ==
    /\ auth_pc = "submit"
    /\ auth_steps' = Append(auth_steps, Step("submit", submit_via(signin)))
    /\ signin' = [signin EXCEPT !.session = signin.accepts]
    /\ auth_pc' = "goto_home"
    /\ UNCHANGED <<auth_state, auth_frame>>

\* lines 227-229
AuthGotoHome ==
    /\ auth_pc = "goto_home"
    /\ auth_pc' = IF signin.home_loads THEN "verify" ELSE "failed"
    /\ UNCHANGED <<signin, auth_steps, auth_state, auth_frame>>

\* lines 232-238
AuthVerify ==
    /\ auth_pc = "verify"
    /\ LET still == still_login(signin)
       IN  /\ auth_state' = session_serialized(still)
           /\ auth_steps' =
                 auth_steps \o <<Step("verify", "")>>
                   \o (IF still THEN <<Step("artifacts", "")>> ELSE <<>>)
                   \o (IF session_serialized(still)
                       THEN <<Step("storage_state", "")>> ELSE <<>>)
           /\ auth_pc' = IF still THEN "failed" ELSE "ok"
    /\ UNCHANGED <<signin, auth_frame>>

NextAuth ==
    \/ AuthGotoSignin
    \/ AuthDetect
    \/ AuthFillUsername
    \/ AuthAdvance
    \/ AuthPassword
    \/ AuthFillPassword
    \/ AuthSubmit
    \/ AuthGotoHome
    \/ AuthVerify

SpecAuth == InitAuth /\ [][NextAuth]_vars

(***************************************************************************)
(* Two extractions side by side.                                           *)
(***************************************************************************)
InitCompare ==
    /\ today = 0
    /\ LOOKAHEAD_DAYS = 0
    /\ SUMMARY_ONLY = FALSE
    /\ SEND_HEARTBEAT = FALSE
    /\ run = 1
    /\ store = <<>>
    /\ prev_store = <<>>
    /\ pc = "compare"
    /\ weekdays = <<>>
    /\ idx = 1
    /\ newly_available = <<>>
    /\ errors = <<>>
    /\ results = <<>>
    /\ auth_state = FALSE
    /\ auth_calls = 0
    /\ checked = <<>>
    /\ snaps = <<>>
    /\ loaded = {}
    /\ saved = {}
    /\ slack = <<>>
    /\ warned = <<>>
    /\ page \in ComparePages
    /\ extracted = NotExtracted
    /\ ever_saved = {}
    /\ page_b \in ComparePages
    /\ extracted_b = NotExtracted
    /\ signin = <<>>
    /\ auth_pc = "idle"
    /\ auth_steps = <<>>
    /\ real = <<>>
    /\ reported_before = {}
    /\ owed = {}

\* line 295, on two pages
ExtractBoth ==
    /\ pc = "compare"
    /\ extracted' = detect_availability_and_deliveries(page)
    /\ extracted_b' = detect_availability_and_deliveries(page_b)
    /\ pc' = "compared"
    /\ UNCHANGED <<today, LOOKAHEAD_DAYS, SUMMARY_ONLY, SEND_HEARTBEAT, run,
                   weekdays, idx, newly_available, errors, results, store,
                   auth_state, auth_calls, checked, snaps, loaded, saved,
                   prev_store, slack, warned, page, ever_saved, page_b,
                   signin, auth_pc, auth_steps, real, reported_before,
                   owed>>

SpecCompare == InitCompare /\ [][ExtractBoth]_vars

(***************************************************************************)
(* Properties.                                                             *)
(***************************************************************************)
\* dates of the run's change set
ChangedDates == {newly_available[i].d : i \in 1..Len(newly_available)}

\* dates of this run whose check returned a snapshot / an error
Succeeded == {d \in DOMAIN snaps : ~has_error(snaps[d])}

Failed == {d \in DOMAIN snaps : has_error(snaps[d])}

\* what was stored for a date when the run started: <<>> or <<state>>
StoredBefore(d) == load_state(prev_store, url_for(d))

StoredNow(d) == load_state(store, url_for(d))

\* the login of this run has succeeded / has failed
LoggedIn == auth_calls = 1 /\ auth_state

LoginFailed == auth_calls = 1 /\ ~auth_state

\* C1: in change mode a successfully checked date is in the change set if
\* and only if (a) its stored state was absent or unavailable and the new
\* snapshot is available, or (b) its stored state was available, the new
\* snapshot is available and the fingerprints differ.
C1_DiffPolicy ==
    ~SUMMARY_ONLY =>
        \A d \in Succeeded :
            LET prev == StoredBefore(d)
                new == snaps[d]
                a == /\ prev = <<>> \/ ~prev[1].available
                     /\ new.available
                b == /\ prev # <<>>
                     /\ prev[1].available
                     /\ new.available
                     /\ new.digest # prev[1].digest
            IN  (d \in ChangedDates) <=> (a \/ b)

\* one run flags a date by (b) and leaves unflagged a date that turned
\* unavailable
C1_Witness ==
    /\ ~SUMMARY_ONLY
    /\ \E d \in Succeeded \cap ChangedDates :
         /\ StoredBefore(d) # <<>>
         /\ StoredBefore(d)[1].available
         /\ StoredBefore(d)[1].digest # snaps[d].digest
    /\ \E d \in Succeeded \ ChangedDates :
         /\ StoredBefore(d) # <<>>
         /\ StoredBefore(d)[1].available
         /\ ~snaps[d].available

\* C2: in the normal-mode loop a failed date is skipped without a write to
\* its stored state and with one recorded error, and when the run reaches
\* its report step every date of the window has been checked and every
\* other date has been diffed and persisted.
C2_FailureIsPerDate ==
    ~SUMMARY_ONLY =>
        /\ \A d \in Failed :
             /\ url_for(d) \notin saved
             /\ StoredNow(d) = StoredBefore(d)
             /\ Cardinality({i \in 1..Len(errors) : errors[i] = snaps[d].error}) = 1
        /\ Len(errors) = Cardinality(Failed)
        /\ pc = "report" =>
             /\ checked = weekdays
             /\ \A d \in Succeeded :
                  /\ url_for(d) \in loaded
                  /\ url_for(d) \in saved
                  /\ StoredNow(d) = <<snap_now_of(snaps[d])>>

\* the first date of the window failed, a later one was checked and stored
C2_Witness ==
    /\ ~SUMMARY_ONLY
    /\ pc = "report"
    /\ Len(weekdays) = 2
    /\ weekdays[1] \in Failed
    /\ weekdays[2] \in Succeeded
    /\ StoredBefore(weekdays[2]) # StoredNow(weekdays[2])

\* C3: after a failed login no date is checked, no stored state is read or
\* written, exactly one notification (the login failure) has been attempted,
\* and the run is over.
C3_LoginFailureShortCircuits ==
    LoginFailed =>
        /\ checked = <<>>
        /\ loaded = {}
        /\ saved = {}
        /\ store = prev_store
        /\ Len(slack) = 1
        /\ slack[1].text = "login failed"
        /\ pc \in {"done", "aborted"}

\* a login fails in a run that has stored state to leave alone
C3_Witness ==
    /\ LoginFailed
    /\ pc = "done"
    /\ store # <<>>

\* C4: a notification that is not delivered never aborts the run.
C4_NotifyFailureNeverAborts ==
    \A i \in 1..Len(slack) : ~slack[i].delivered => pc # "aborted"

\* C5 as claimed: after every successful check of a date, in either mode,
\* the stored state of the date equals the snapshot just taken.
C5_StoredAfterEveryCheck ==
    \A d \in Succeeded : StoredNow(d) = <<snap_now_of(snaps[d])>>

\* C5: in normal (change) mode, after every successful check of a date the
\* stored state of the date equals the snapshot just taken, whether or not
\* the date was flagged as changed.
C5_StoredAfterCheckInChangeMode ==
    ~SUMMARY_ONLY =>
        \A d \in Succeeded : StoredNow(d) = <<snap_now_of(snaps[d])>>

\* a date that is not flagged has its stored state replaced all the same
C5_Witness ==
    /\ ~SUMMARY_ONLY
    /\ \E d \in Succeeded \ ChangedDates :
         /\ StoredBefore(d) # <<>>
         /\ StoredBefore(d) # StoredNow(d)
         /\ StoredNow(d) = <<snap_now_of(snaps[d])>>

\* the normal-mode report step has been taken
Reported == ~SUMMARY_ONLY /\ LoggedIn /\ pc \in {"warn", "done", "aborted"}

\* C6: in change mode nothing is posted before the report step, and the
\* report step posts one alert listing exactly the changed dates when the
\* change set is non-empty, one heartbeat when it is empty and the flag is
\* on, and nothing when it is empty and the flag is off.
C6_OneOfThreeOutcomes ==
    /\ (~SUMMARY_ONLY /\ LoggedIn /\ pc \in {"loop", "report"}) => slack = <<>>
    /\ Reported =>
         IF newly_available # <<>>
         THEN /\ Len(slack) = 1
              /\ slack[1].text = "New future Lunchdrop dates available"
              /\ Len(slack[1].blocks) = Cardinality(ChangedDates)
              /\ {slack[1].blocks[i].d : i \in 1..Len(slack[1].blocks)}
                    = ChangedDates
         ELSE IF SEND_HEARTBEAT
         THEN /\ Len(slack) = 1
              /\ slack[1].text = "Lunchdrop monitor heartbeat"
         ELSE slack = <<>>

\* an alert for two dates went out, and no heartbeat although the flag is on
C6_Witness ==
    /\ Reported
    /\ SEND_HEARTBEAT
    /\ Cardinality(ChangedDates) = 2
    /\ Len(slack) = 1
    /\ slack[1].delivered
    /\ Len(slack[1].blocks) = 2

\* the summary has been posted
Summarised == SUMMARY_ONLY /\ LoggedIn /\ pc \in {"done", "aborted"}

\* C7: summary mode reads no stored state and flags nothing, and its one
\* report has one entry per date of the window, in window order, showing
\* the error of a failed check and otherwise the availability and the names
\* the check returned.
C7_SummaryRollUp ==
    SUMMARY_ONLY =>
        /\ loaded = {}
        /\ newly_available = <<>>
        /\ (LoggedIn /\ pc = "summary") => slack = <<>>
        /\ Summarised =>
             /\ Len(slack) = 1
             /\ slack[1].text = "Lunchdrop summary (weekdays)"
             /\ Len(slack[1].blocks) = Len(weekdays)
             /\ \A i \in 1..Len(weekdays) :
                  LET line == slack[1].blocks[i]
                      r == snaps[weekdays[i]]
                  IN  /\ line.d = weekdays[i]
                      /\ IF has_error(r)
                         THEN line.shows = "error" /\ line.text = r.error
                         ELSE IF r.available
                         THEN /\ line.shows \in {"names", "names not detected"}
                              /\ line.text = r.names
                         ELSE line.shows = "not available"

\* a summary shows an error and an available date whose names differ from
\* the names stored for it
C7_Witness ==
    /\ Summarised
    /\ Len(weekdays) = 2
    /\ has_error(snaps[weekdays[1]])
    /\ slack[1].blocks[2].shows = "names"
    /\ StoredNow(weekdays[2]) # <<>>
    /\ StoredNow(weekdays[2])[1].names # slack[1].blocks[2].text

\* C8: the window is exactly the dates today+i, 1 <= i <= LOOKAHEAD_DAYS,
\* that fall on Monday to Friday, in ascending order.
C8_WindowIsWeekdays ==
    pc # "start" =>
        /\ \A i \in 1..Len(weekdays) :
             /\ weekdays[i] \in (today + 1)..(today + LOOKAHEAD_DAYS)
             /\ weekdays[i] % 7 \notin {5, 6}
        /\ \A i, j \in 1..Len(weekdays) : i < j => weekdays[i] < weekdays[j]
        /\ \A k \in 1..LOOKAHEAD_DAYS :
             (today + k) % 7 \in 0..4 =>
                 \E i \in 1..Len(weekdays) : weekdays[i] = today + k

\* a 10-day lookahead starting on a Friday: six dates, four weekend days out
C8_Witness ==
    /\ pc # "start"
    /\ today % 7 = 4
    /\ LOOKAHEAD_DAYS = 10
    /\ Len(weekdays) = 6

\* C9: a run whose window is empty ends without a login, a check, a read or
\* write of stored state, or a notification.
C9_EmptyWindowDoesNothing ==
    (pc # "start" /\ weekdays = <<>>) =>
        /\ pc = "done"
        /\ auth_calls = 0
        /\ ~auth_state
        /\ checked = <<>>
        /\ loaded = {}
        /\ saved = {}
        /\ store = prev_store
        /\ slack = <<>>

\* a positive lookahead that holds only weekend days
C9_Witness ==
    /\ pc = "done"
    /\ weekdays = <<>>
    /\ LOOKAHEAD_DAYS = 2
    /\ today % 7 = 4

\* the blob is there and parses
Parsed(p) == p.blob = "ok"

\* the list the extractor would iterate
UsedList(p) ==
    IF p.lunchDay = "dict" /\ p.deliveries # <<>> THEN p.deliveries
    ELSE p.delivery

\* a parsed blob with something that is not an object where the extractor
\* needs one
NonObjectShape(p) ==
    /\ Parsed(p)
    /\ \/ p.top # "dict"
       \/ p.props = "nondict"
       \/ p.props = "dict" /\ p.lunchDay = "nondict"
       \/ p.props = "dict" /\ \E i \in 1..Len(UsedList(p)) : ~UsedList(p)[i].dict

\* a parsed object that has neither props.lunchDay nor props.delivery
MissingKeys(p) ==
    /\ Parsed(p)
    /\ p.top = "dict"
    /\ \/ p.props = "missing"
       \/ p.props = "dict" /\ p.lunchDay = "missing" /\ p.delivery = <<>>

UnexpectedShape(p) == NonObjectShape(p) \/ MissingKeys(p)

IsSnapshot(r) ==
    /\ ~r.raised
    /\ DOMAIN r = {"raised", "available", "deliveries", "digest"}

\* C10 as claimed: the extractor never raises, and when the blob never
\* appears, is empty, is not JSON or has an unexpected shape it returns the
\* default snapshot with the digest of empty content.
C10_DefaultOnEveryFailure ==
    pc = "extracted" =>
        /\ IsSnapshot(extracted)
        /\ (page.blob \in {"timeout", "empty", "badjson"} \/ UnexpectedShape(page))
              => extracted = DefaultSnapshot

\* C10: the extractor never raises; when the blob never appears, is empty,
\* is not JSON, or holds a non-object where an object is needed, it returns
\* the default snapshot with the digest of empty content; a blob that is an
\* object lacking the expected keys gives "unavailable, no items" with the
\* digest of the empty name list.
C10_NeverRaises ==
    pc = "extracted" =>
        /\ IsSnapshot(extracted)
        /\ (page.blob \in {"timeout", "empty", "badjson"} \/ NonObjectShape(page))
              => extracted = DefaultSnapshot
        /\ MissingKeys(page) =>
              extracted = Returned(FALSE, <<>>, content_hash(json_dumps(<<>>)))

\* a list with a non-object element after an open delivery gives the default
C10_Witness ==
    /\ pc = "extracted"
    /\ Parsed(page)
    /\ Len(page.deliveries) = 2
    /\ page.deliveries[1].dict /\ is_open_delivery(page.deliveries[1])
    /\ ~page.deliveries[2].dict
    /\ extracted = DefaultSnapshot

\* the structured payload gives no signal: no blob, or one that cannot be
\* parsed
NoSignal(p) == p.blob \in {"timeout", "empty", "badjson"}

Eligible(d) ==
    /\ d.dict
    /\ d.isOpen \notin {"false", "missing"}
    /\ d.isCancelled \notin {"true"}
    /\ d.userCanOrder # "false"

\* the delivery records of a parsed payload
Records(p) ==
    IF p.top = "dict" /\ p.props = "dict" /\ p.lunchDay # "nondict"
    THEN UsedList(p)
    ELSE <<>>

EligibleRecords(p) ==
    LET Test(d) == Eligible(d)
    IN  SelectSeq(Records(p), Test)

\* the names of the eligible records that have one, in payload order
NamedEligibleNames(p) ==
    LET Test(d) == Eligible(d) /\ delivery_name(d) # ""
        sel == SelectSeq(Records(p), Test)
    IN  [i \in 1..Len(sel) |-> delivery_name(sel[i])]

\* C12 as claimed: for a blob that parses, available is true exactly when
\* some record is eligible, and the item list has one item per eligible
\* record.
C12_OneItemPerEligibleRecord ==
    (pc = "extracted" /\ Parsed(page)) =>
        /\ extracted.available <=> EligibleRecords(page) # <<>>
        /\ Len(extracted.deliveries) = Len(EligibleRecords(page))

\* C12: for a blob that parses with objects wherever the extractor needs
\* one, available is true exactly when some record is eligible, and the
\* item list is the eligible records that carry a name, one item each, in
\* payload order.
C12_AvailableIffEligible ==
    (pc = "extracted" /\ Parsed(page) /\ ~NonObjectShape(page)) =>
        /\ extracted.available <=> EligibleRecords(page) # <<>>
        /\ info_names(extracted.deliveries) = NamedEligibleNames(page)

\* two eligible records, one of them without a name: available, one item
C12_Witness ==
    /\ pc = "extracted"
    /\ Parsed(page)
    /\ ~NonObjectShape(page)
    /\ Len(EligibleRecords(page)) = 2
    /\ extracted.available
    /\ Len(extracted.deliveries) = 1

\* the item names of an extraction as a set / normalised and sorted
NameSet(r) == {r.deliveries[i].name : i \in 1..Len(r.deliveries)}

NormalisedNames(r) ==
    sorted([i \in 1..Len(r.deliveries) |-> stable_text(r.deliveries[i].name)])

\* C13: two extractions of parsed payloads whose item names are the same up
\* to record order and whitespace inside the names have equal fingerprints.
C13_FingerprintPurity ==
    ( /\ pc = "compared"
      /\ Parsed(page) /\ Parsed(page_b)
      /\ NormalisedNames(extracted) = NormalisedNames(extracted_b) )
        => extracted.digest = extracted_b.digest

\* C14 as claimed: two snapshots that differ in availability or in their
\* set of item names have different fingerprints.
C14_FingerprintSensitivity ==
    ( /\ pc = "compared"
      /\ \/ extracted.available # extracted_b.available
         \/ NameSet(extracted) # NameSet(extracted_b) )
        => extracted.digest # extracted_b.digest

\* C14: two snapshots that differ in their set of item names have different
\* fingerprints; availability is not part of the fingerprint.
C14_SensitiveToNames ==
    (pc = "compared" /\ NameSet(extracted) # NameSet(extracted_b))
        => extracted.digest # extracted_b.digest

\* two available snapshots with as many items but other names
C14_Witness ==
    /\ pc = "compared"
    /\ extracted.available /\ extracted_b.available
    /\ Len(extracted.deliveries) = 2 /\ Len(extracted_b.deliveries) = 2
    /\ NameSet(extracted) = {"A", "B"}
    /\ NameSet(extracted_b) = {"A"}
    /\ extracted.digest # extracted_b.digest

\* every page URL the monitor can form in the model, and one more date
KnownDates == 0..(6 + MaxLookahead + 1)

\* C15: after save(url, snapshot), load(url) returns the snapshot's
\* available flag, fingerprint and item names, whatever was stored under the
\* URL before; the state stored under every other URL is unchanged; and load
\* of a URL never saved returns absent.
C15_StoreRoundTrip ==
    [][ /\ (pc = "loop" /\ saved' # saved) =>
            LET d == weekdays[idx]
                u == url_for(d)
                snap == snap_now_of(snaps'[d])
                back == load_state(store', u)
            IN  /\ saved' = saved \cup {u}
                /\ Len(back) = 1
                /\ back[1].available = snap.available
                /\ back[1].digest = snap.digest
                /\ back[1].names = snap.names
                /\ \A e \in KnownDates \ {d} :
                     load_state(store', url_for(e)) =
                         load_state(store, url_for(e))
        /\ \A e \in KnownDates :
             url_for(e) \notin ever_saved' =>
                 load_state(store', url_for(e)) = <<>>
      ]_vars

\* a second run has overwritten the state of one date with another snapshot
\* while the state of a later date is still the one of the first run and a
\* date outside the window has none
C15_Witness ==
    /\ run = 2
    /\ pc = "loop"
    /\ \E d \in Succeeded, e \in KnownDates \ DOMAIN snaps :
         /\ StoredBefore(d) # <<>>
         /\ StoredBefore(d)[1].available # snaps[d].available
         /\ StoredNow(d) = <<snap_now_of(snaps[d])>>
         /\ StoredNow(e) # <<>>
         /\ StoredNow(e) = StoredBefore(e)
    /\ \E f \in KnownDates : StoredNow(f) = <<>>

\* the kinds of the login steps taken so far
StepKinds == [i \in 1..Len(auth_steps) |-> auth_steps[i].kind]

Took(kind) == \E i \in 1..Len(auth_steps) : auth_steps[i].kind = kind

AuthOver == auth_pc \in {"ok", "failed"}

\* C16: authentication succeeds if and only if, after the login steps, the
\* home surface (once loaded) shows no username or password control; the
\* session is serialized only on success, the diagnostic artifacts are
\* written only on failure, and never both.
C16_SuccessIffNoLoginControl ==
    /\ AuthOver =>
         (auth_pc = "ok" <=> (Took("verify") /\ ~still_login(signin)))
    /\ (auth_state \/ Took("storage_state")) => auth_pc = "ok"
    /\ auth_pc = "ok" => (auth_state /\ Took("storage_state"))
    /\ Took("artifacts") => auth_pc = "failed"
    /\ ~(Took("artifacts") /\ (auth_state \/ Took("storage_state")))
    /\ Took("verify") <=>
         (signin.loads /\ signin.home_loads /\ AuthOver)

\* a login whose credentials are refused ends with the artifacts and no
\* serialized session
C16_Witness ==
    /\ auth_pc = "failed"
    /\ Took("submit")
    /\ ~signin.accepts
    /\ Took("artifacts")
    /\ ~auth_state

\* surfaces with a username control and a password control that is shown
\* from the start (one step) or only after an advance action (two steps)
OneStep == signin.loads /\ signin.username /\ signin.password = "shown"

TwoStep == signin.loads /\ signin.username /\ signin.password = "on_advance"

LoginSequence == <<"fill_username", "advance", "fill_password", "submit">>

\* C17: on a two-step sign-in surface the authenticator fills the username,
\* advances, fills the revealed password, submits and reaches verification;
\* the one-step form gets the same sequence of steps.
C17_TwoStepSameSequence ==
    (OneStep \/ TwoStep) =>
        /\ auth_pc \in {"goto_home", "verify"} => StepKinds = LoginSequence
        /\ AuthOver =>
             /\ SubSeq(StepKinds, 1, 4) = LoginSequence
             /\ signin.home_loads =>
                  (Len(StepKinds) >= 5 /\ StepKinds[5] = "verify")
        /\ Took("fill_password") => (signin.password_now /\ signin.advanced)
        /\ (AuthOver /\ signin.home_loads /\ signin.accepts) => auth_pc = "ok"

\* a two-step surface that reveals the password late, with no Continue
\* button, has been logged in
C17_Witness ==
    /\ TwoStep
    /\ signin.reveal = "slow"
    /\ ~signin.continue_btn
    /\ auth_pc = "ok"
    /\ auth_state
    /\ SubSeq(StepKinds, 1, 4) = LoginSequence

\* the item names of a change event / of the snapshot taken for its date
EventNames(e) == {e.names[i] : i \in 1..Len(e.names)}

NowNames(d) == {snaps[d].names[i] : i \in 1..Len(snaps[d].names)}

C19_NotifyAfterLoop ==
    [][ (~SUMMARY_ONLY /\ LoggedIn /\ Len(slack') > Len(slack)) =>
            /\ pc = "report"
            /\ idx > Len(weekdays)
            /\ checked = weekdays
            /\ DOMAIN snaps = {weekdays[i] : i \in 1..Len(weekdays)}
            /\ \A d \in Succeeded : StoredNow(d) = <<snap_now_of(snaps[d])>>
            /\ store' = store
      ]_vars

\* an alert that was not delivered, after a run that stored new snapshots
\* for two dates
C19_Witness ==
    /\ ~SUMMARY_ONLY
    /\ LoggedIn
    /\ pc = "aborted"
    /\ Len(slack) = 1
    /\ ~slack[1].delivered
    /\ Len(weekdays) >= 2
    /\ \E d \in Succeeded, e \in Succeeded :
         /\ d # e
         /\ StoredNow(d) # StoredBefore(d)
         /\ StoredNow(e) # StoredBefore(e)
    /\ \A d \in Succeeded : StoredNow(d) = <<snap_now_of(snaps[d])>>

\* C20: a date that an earlier run reported as available, and whose real
\* set of eligible item names never changes, is not reported again by any
\* later run, also when a run in between failed transiently on its page.
C20_NoRepeatedReport ==
    \A d \in ChangedDates : d \notin reported_before

\* C21: a date that a change-mode run found newly available is listed in a
\* delivered notification, by that run or by a later one.  While no such
\* notification has been delivered, every later run that checks the date and
\* finds it available must therefore put it in its change set.
C21_NoMissedUnlock ==
    \A d \in owed :
        (d \in Succeeded /\ snaps[d].available) => d \in ChangedDates

\* main() has returned or was left by an exception
RunOver == pc \in {"done", "aborted"}

\* the path the finished run took through main()
RunPath ==
    IF weekdays = <<>> THEN "empty"
    ELSE IF LoginFailed THEN "login_failed"
    ELSE IF SUMMARY_ONLY THEN "summary"
    ELSE report_kind(newly_available, SEND_HEARTBEAT)

\* C22: a run attempts at most one notification on every path: none for an
\* empty window or a silent no-change run, exactly one for a login failure,
\* a summary report, a change alert or a heartbeat.
C22_AtMostOneNotification ==
    /\ Len(slack) <= 1
    /\ RunOver =>
         CASE RunPath \in {"empty", "none"} -> slack = <<>>
           [] RunPath = "login_failed" ->
                Len(slack) = 1 /\ slack[1].text = "login failed"
           [] RunPath = "summary" ->
                Len(slack) = 1 /\ slack[1].text = "Lunchdrop summary (weekdays)"
           [] RunPath = "alert" ->
                /\ Len(slack) = 1
                /\ slack[1].text = "New future Lunchdrop dates available"
           [] RunPath = "heartbeat" ->
                Len(slack) = 1 /\ slack[1].text = "Lunchdrop monitor heartbeat"

\* a second run in change mode, heartbeat on, with a failed date and a
\* changed date, has attempted its one notification: the alert
C22_Witness ==
    /\ run = 2
    /\ RunOver
    /\ RunPath = "alert"
    /\ SEND_HEARTBEAT
    /\ Failed # {}
    /\ Len(slack) = 1
    /\ slack[1].text = "New future Lunchdrop dates available"

====
